---- MODULE Spec2Model ----
(***************************************************************************)
(* A model of the Pulumi stack program (the deployment composer) and of    *)
(* the Function construct of bref-pulumi.                                  *)
(*                                                                         *)
(* The stack program is a top-level script.  It runs to completion (or to  *)
(* an uncaught exception) before any deferred callback runs; the callbacks *)
(* handed to Output.apply / pulumi.all run afterwards, each once, when the *)
(* Outputs they read have resolved.  The script is modelled statement      *)
(* group by statement group (pc), the deferred part by one action per      *)
(* Output or callback.                                                     *)
(***************************************************************************)
EXTENDS Integers, Sequences, FiniteSets, TLC

VARIABLES
    config,          \* the stack configuration read through pulumi.Config
    pc,              \* position of the top-level script
    vpc,             \* let vpc: SimpleVpc | null
    securityGroup,   \* let securityGroup: AuroraSecurityGroup | null
    auroraCluster,   \* let auroraCluster: AuroraServerless | null
    credentials,     \* let credentials: any (null, or the Output of the parsed secret)
    lambdaVpcConfig, \* which Output the variable lambdaVpcConfig refers to
    outputs,         \* the deferred values: name -> [st, val]
    lookupCount,     \* calls of aws.secretsmanager.getSecretVersion
    rolePolicies,    \* names passed to lambdaRole.addPolicy, in order
    environment,     \* const environment
    units,           \* the three compute units built by the apply callbacks
    triggers,        \* the EventTargets created
    exports,         \* the exported stack values
    callerArgs,      \* Function: what the caller passes to every build
    callerLayers,    \* Function: the caller's `layers` array (an object shared by reference)
    lambdaCount,     \* Function: the aws.lambda.Function resources created so far
    lastCall         \* Function: the last constructor call and what it did

composerVars == <<config, pc, vpc, securityGroup, auroraCluster, credentials,
                  lambdaVpcConfig, outputs, lookupCount, rolePolicies, environment,
                  units, triggers, exports>>
functionVars == <<callerArgs, callerLayers, lambdaCount, lastCall>>
vars == <<composerVars, functionVars>>

NULL == "null"
UNDEFINED == "undefined"

\* An array-valued or object-valued argument that may be undefined.
UndefinedArray == [defined |-> FALSE, items |-> <<>>]
Array(items) == [defined |-> TRUE, items |-> items]
EmptyEnv == [k \in {} |-> ""]
UndefinedObject == [defined |-> FALSE, vars |-> EmptyEnv]
Object(properties) == [defined |-> TRUE, vars |-> properties]

(***************************************************************************)
(* Configuration                                                           *)
(***************************************************************************)
BooleanFlags == {"useMySQL", "useVPC", "useOctane", "useApiWarmer", "useArtisanScheduler"}

\* A boolean option of the stack is true, false or not set.
FlagValues == {"true", "false", UNDEFINED}

\* A rate option is not set, set to the empty string, or set to an expression.
ApiWarmRates == {UNDEFINED, "", "rate(10 minutes)"}
ArtisanScheduleRates == {UNDEFINED, "", "rate(2 minutes)"}

Configs == [useMySQL : FlagValues, useVPC : FlagValues, useOctane : FlagValues,
            useApiWarmer : FlagValues, useArtisanScheduler : FlagValues,
            apiWarmRate : ApiWarmRates, artisanScheduleRate : ArtisanScheduleRates]

\* config.getBoolean(key): true, false or undefined
getBoolean(key) == config[key]

\* config.get(key): the string, or undefined
get(key) == config[key]

\* JavaScript truthiness of a getBoolean result
Truthy(v) == v = "true"

\* a || b on strings: b when a is undefined or empty
OrElse(a, b) == IF a = UNDEFINED \/ a = "" THEN b ELSE a

(***************************************************************************)
(* Deferred values                                                         *)
(***************************************************************************)
OutputNames == {"publicSubnetIds", "securityGroupId", "endpoint", "secretArn",
                "auroraSecret", "credentials", "lambdaVpcConfig", "bucket"}

NoCredentials == [username |-> "", password |-> ""]
NoVpcConfig == [subnetIds |-> <<>>, securityGroupIds |-> <<>>]

\* The value an Output holds while it has none.
Blank(name) ==
    CASE name = "publicSubnetIds" -> <<>>
      [] name = "credentials" -> NoCredentials
      [] name = "lambdaVpcConfig" -> NoVpcConfig
      [] OTHER -> ""

Absent(name) == [st |-> "absent", val |-> Blank(name)]
Pending(name) == [st |-> "pending", val |-> Blank(name)]
Resolved(v) == [st |-> "resolved", val |-> v]
Failed(name) == [st |-> "failed", val |-> Blank(name)]

IsResolved(name) == outputs[name].st = "resolved"
IsSettled(name) == outputs[name].st \in {"resolved", "failed"}

\* new SimpleVpc(name, true, true, true, 2, "10.0.0.0/16")
NumberOfAzs == 2
VpcName == "lambda-test-vpc"
SecurityGroupName == "lambda-test-aurora-security-group"
AuroraName == "laravel-test-aurora"

\* What the provisioning engine reports for the created resources.
PublicSubnetIdsValue == [i \in 1..NumberOfAzs |-> i]
SecurityGroupIdValue == "sg-aurora"
EndpointValue == "aurora.cluster.endpoint"
SecretArnValue == "arn:secret:aurora"
BucketValue == "bref-example-bucket-0a1b2c3"

\* Payloads the secret store may hold for the cluster's secret.
ValidSecret == "{\"username\":\"admin\",\"password\":\"s3cret\"}"
SecretStrings == {"", "{not json", ValidSecret}

\* JSON.parse on the payloads above: a parsed object, or a SyntaxError.
JSONParse(s) ==
    IF s = ValidSecret
    THEN [threw |-> FALSE, username |-> "admin", password |-> "s3cret"]
    ELSE [threw |-> TRUE, username |-> "", password |-> ""]

(***************************************************************************)
(* The compute units                                                       *)
(***************************************************************************)
UnitNames == {"web", "console", "worker"}

NoUnit == [registered |-> FALSE, built |-> FALSE, environment |-> EmptyEnv,
           subnetIds |-> <<>>, securityGroupIds |-> <<>>]

\* An object literal { ...a, ...b }: the properties of a, then those of b; a
\* property written twice keeps the value written last.
ObjectSpread(a, b) ==
    [k \in DOMAIN a \cup DOMAIN b |-> IF k \in DOMAIN b THEN b[k] ELSE a[k]]

\* {BREF_LOOP_MAX: 250, ...environment}; the number is held by its decimal text.
WebOverrides == [k \in {"BREF_LOOP_MAX"} |-> "250"]
WebEnvironmentNoOverride(env) == env
WebEnvironment(env) == ObjectSpread(WebOverrides, env)

\* The environment argument of new WebApp / new ConsoleApp / new SqsWorker.
UnitEnvironment(u, env) == IF u = "web" THEN WebEnvironment(env) ELSE env

(***************************************************************************)
(* The top-level script                                                    *)
(***************************************************************************)
ComposerStart ==
    /\ pc = "vpc"
    /\ vpc = NULL
    /\ securityGroup = NULL
    /\ auroraCluster = NULL
    /\ credentials = NULL
    /\ lambdaVpcConfig = "default"
    /\ outputs = [n \in OutputNames |->
                    IF n = "lambdaVpcConfig" THEN Pending(n) ELSE Absent(n)]
    /\ lookupCount = 0
    /\ rolePolicies = <<>>
    /\ environment = EmptyEnv
    /\ units = [u \in UnitNames |-> NoUnit]
    /\ triggers = <<>>
    /\ exports = EmptyEnv

\* No Function is being built.
FunctionIdle ==
    /\ callerArgs = [phpVersion |-> <<>>, environment |-> UndefinedObject,
                     layers |-> UndefinedArray]
    /\ callerLayers = UndefinedArray
    /\ lambdaCount = 0
    /\ lastCall = <<>>

Init ==
    /\ config \in Configs
    /\ ComposerStart
    /\ FunctionIdle

\* if (config.getBoolean("useMySQL") || config.getBoolean("useVPC"))
NeedsVpcUseVpcOnly == Truthy(getBoolean("useVPC"))
NeedsVpc == Truthy(getBoolean("useMySQL")) \/ Truthy(getBoolean("useVPC"))

CreateVpc ==
    /\ pc = "vpc"
    /\ IF NeedsVpc
       THEN /\ vpc' = VpcName
            /\ outputs' = [outputs EXCEPT !["publicSubnetIds"] = Pending("publicSubnetIds")]
       ELSE UNCHANGED <<vpc, outputs>>
    /\ pc' = "db"
    /\ UNCHANGED <<config, securityGroup, auroraCluster, credentials, lambdaVpcConfig,
                   lookupCount, rolePolicies, environment, units, triggers, exports>>
    /\ UNCHANGED functionVars

\* if (config.getBoolean("useMySQL") && vpc)
DatabaseEnabledAnyVpc == vpc # NULL
DatabaseEnabled == Truthy(getBoolean("useMySQL")) /\ vpc # NULL

EnterDatabaseBlock ==
    /\ pc = "db"
    /\ pc' = IF DatabaseEnabled THEN "sg" ELSE "role"
    /\ UNCHANGED <<config, vpc, securityGroup, auroraCluster, credentials, lambdaVpcConfig,
                   outputs, lookupCount, rolePolicies, environment, units, triggers,
                   exports>>
    /\ UNCHANGED functionVars

\* securityGroup = new AuroraSecurityGroup(...); lambdaVpcConfig = pulumi.all([...]).apply(...)
CreateSecurityGroup ==
    /\ pc = "sg"
    /\ securityGroup' = SecurityGroupName
    /\ lambdaVpcConfig' = "derived"
    /\ outputs' = [outputs EXCEPT !["securityGroupId"] = Pending("securityGroupId"),
                                  !["lambdaVpcConfig"] = Pending("lambdaVpcConfig")]
    /\ pc' = "cluster"
    /\ UNCHANGED <<config, vpc, auroraCluster, credentials, lookupCount, rolePolicies,
                   environment, units, triggers, exports>>
    /\ UNCHANGED functionVars

\* auroraCluster = new AuroraServerless("laravel-test-aurora", vpc, securityGroup)
CreateAuroraCluster ==
    /\ pc = "cluster"
    /\ auroraCluster' = AuroraName
    /\ outputs' = [outputs EXCEPT !["endpoint"] = Pending("endpoint"),
                                  !["secretArn"] = Pending("secretArn")]
    /\ pc' = "secret"
    /\ UNCHANGED <<config, vpc, securityGroup, credentials, lambdaVpcConfig, lookupCount,
                   rolePolicies, environment, units, triggers, exports>>
    /\ UNCHANGED functionVars

\* const auroraSecret = auroraCluster.secretArn.apply(...); credentials = auroraSecret.apply(...)
CreateCredentials ==
    /\ pc = "secret"
    /\ credentials' = "credentials"
    /\ outputs' = [outputs EXCEPT !["auroraSecret"] = Pending("auroraSecret"),
                                  !["credentials"] = Pending("credentials")]
    /\ pc' = "role"
    /\ UNCHANGED <<config, vpc, securityGroup, auroraCluster, lambdaVpcConfig, lookupCount,
                   rolePolicies, environment, units, triggers, exports>>
    /\ UNCHANGED functionVars

\* new aws.s3.Bucket; new LambdaRole; lambdaRole.addPolicy("s3", ...); addPolicy("vpc", ...)
CreateRole ==
    /\ pc = "role"
    /\ outputs' = [outputs EXCEPT !["bucket"] = Pending("bucket")]
    /\ rolePolicies' = <<"s3", "vpc">>
    /\ pc' = "env"
    /\ UNCHANGED <<config, vpc, securityGroup, auroraCluster, credentials, lambdaVpcConfig,
                   lookupCount, environment, units, triggers, exports>>
    /\ UNCHANGED functionVars

\* References to deferred values are held by name.
BucketRef == "${bucket.bucket}"
EndpointRef == "${auroraCluster.endpoint}"
UsernameRef == "${credentials.username}"
PasswordRef == "${credentials.password}"

EnvironmentKeys == {"FILESYSTEM_DISK", "AWS_BUCKET", "DB_DATABASE", "DB_CONNECTION",
                    "DB_HOST", "DB_PORT", "DB_USERNAME", "DB_PASSWORD"}

\* const environment = { ... }
EnvironmentLiteral ==
    [k \in EnvironmentKeys |->
        CASE k = "FILESYSTEM_DISK" -> "s3"
          [] k = "AWS_BUCKET" -> BucketRef
          [] k = "DB_DATABASE" -> "laravelTest"
          [] k = "DB_CONNECTION" -> "mysql"
          [] k = "DB_HOST" -> IF auroraCluster # NULL THEN EndpointRef ELSE ""
          [] k = "DB_PORT" -> "3306"
          [] k = "DB_USERNAME" -> IF credentials # NULL THEN UsernameRef ELSE ""
          [] k = "DB_PASSWORD" -> IF credentials # NULL THEN PasswordRef ELSE ""]

BuildEnvironment ==
    /\ pc = "env"
    /\ environment' = EnvironmentLiteral
    /\ pc' = "units"
    /\ UNCHANGED <<config, vpc, securityGroup, auroraCluster, credentials, lambdaVpcConfig,
                   outputs, lookupCount, rolePolicies, units, triggers, exports>>
    /\ UNCHANGED functionVars

\* const webApp / consoleApp / sqsWorker = lambdaVpcConfig.apply(vpcConfig => new ...)
RegisterUnits ==
    /\ pc = "units"
    /\ units' = [u \in UnitNames |-> [units[u] EXCEPT !.registered = TRUE]]
    /\ pc' = "warmer"
    /\ UNCHANGED <<config, vpc, securityGroup, auroraCluster, credentials, lambdaVpcConfig,
                   outputs, lookupCount, rolePolicies, environment, triggers, exports>>
    /\ UNCHANGED functionVars

\* The script never declares or imports `stackName`; evaluating the template
\* literal that names a rule throws a ReferenceError, which ends the script.
StackNameDeclared == FALSE

DefaultApiWarmRate == "rate(5 minutes)"
DefaultArtisanScheduleRate == "rate(1 minute)"

\* if (config.getBoolean("useApiWarmer")) { ... }
ApiWarmer ==
    /\ pc = "warmer"
    /\ IF ~Truthy(getBoolean("useApiWarmer"))
       THEN pc' = "artisan" /\ UNCHANGED triggers
       ELSE IF ~StackNameDeclared
       THEN pc' = "aborted" /\ UNCHANGED triggers
       ELSE /\ triggers' = Append(triggers,
                  [rule |-> "api-warmer", target |-> "web",
                   rate |-> OrElse(get("apiWarmRate"), DefaultApiWarmRate),
                   input |-> "{\"warmer\":true}"])
            /\ pc' = "artisan"
    /\ UNCHANGED <<config, vpc, securityGroup, auroraCluster, credentials, lambdaVpcConfig,
                   outputs, lookupCount, rolePolicies, environment, units, exports>>
    /\ UNCHANGED functionVars

\* if (config.getBoolean("useArtisanScheduler")) { ... }
ArtisanScheduler ==
    /\ pc = "artisan"
    /\ IF ~Truthy(getBoolean("useArtisanScheduler"))
       THEN pc' = "exports" /\ UNCHANGED triggers
       ELSE IF ~StackNameDeclared
       THEN pc' = "aborted" /\ UNCHANGED triggers
       ELSE /\ triggers' = Append(triggers,
                  [rule |-> "artisan-scheduler", target |-> "console",
                   rate |-> OrElse(get("artisanScheduleRate"), DefaultArtisanScheduleRate),
                   input |-> "\"schedule:run\""])
            /\ pc' = "exports"
    /\ UNCHANGED <<config, vpc, securityGroup, auroraCluster, credentials, lambdaVpcConfig,
                   outputs, lookupCount, rolePolicies, environment, units, exports>>
    /\ UNCHANGED functionVars

\* The exported names, in the order the script assigns them.
OutputExports ==
    [k \in {"apiUrl", "bucketName", "lambdaName", "lambdaRoleArn", "consoleLambdaName",
            "workerLambdaName", "queueUrl", "useOctane"} |->
        CASE k = "apiUrl" -> "${webApp.httpApi.apiUrl}"
          [] k = "bucketName" -> "${bucket.id}"
          [] k = "lambdaName" -> "${webApp.phpFunction.lambda.name}"
          [] k = "lambdaRoleArn" -> "${lambdaRole.lambdaRole.arn}"
          [] k = "consoleLambdaName" -> "${consoleApp.phpFpmFunction.lambda.name}"
          [] k = "workerLambdaName" -> "${sqsWorker.phpFunction.lambda.name}"
          [] k = "queueUrl" -> "${sqsWorker.queue.url}"
          [] k = "useOctane" -> "${webApp.useOctane}"]

\* export const vpcId = vpc?.vpc.vpcId ?? ""; auroraClusterId; auroraClusterEndpoint
OptionalExports ==
    [k \in {"vpcId", "auroraClusterId", "auroraClusterEndpoint"} |->
        CASE k = "vpcId" -> IF vpc # NULL THEN "${vpc.vpcId}" ELSE ""
          [] k = "auroraClusterId" -> IF auroraCluster # NULL THEN "${auroraCluster.id}" ELSE ""
          [] k = "auroraClusterEndpoint" -> IF auroraCluster # NULL THEN EndpointRef ELSE ""]

\* The eleven exports assigned before the readme is read.
ExportValues == ObjectSpread(OutputExports, OptionalExports)

\* readFileSync("./Pulumi.README.md").toString(), when the file is there
ReadmeText == "<text of ./Pulumi.README.md>"

\* The exports; the last one reads ./Pulumi.README.md and throws when the file
\* is absent, which ends the script by an exception after the other exports.
Exports ==
    /\ pc = "exports"
    /\ \E readmePresent \in BOOLEAN :
         IF readmePresent
         THEN /\ exports' = ObjectSpread(ExportValues, [k \in {"readme"} |-> ReadmeText])
              /\ pc' = "done"
         ELSE /\ exports' = ExportValues
              /\ pc' = "aborted"
    /\ UNCHANGED <<config, vpc, securityGroup, auroraCluster, credentials, lambdaVpcConfig,
                   outputs, lookupCount, rolePolicies, environment, units, triggers>>
    /\ UNCHANGED functionVars

\* The script has ended: it has returned, or it has thrown.  The callbacks it
\* registered before it threw are still registered, and run if the host goes on.
ScriptEnded == pc \in {"done", "aborted"}

(***************************************************************************)
(* The deferred part: resources reported by the provisioning engine and    *)
(* the callbacks of apply / all.  Nothing here runs before the script has  *)
(* ended.  The engine reports the resources in any order; only a callback  *)
(* waits, for the Outputs it reads.                                        *)
(***************************************************************************)
composerFrame == <<config, pc, vpc, securityGroup, auroraCluster, credentials,
                   lambdaVpcConfig, rolePolicies, environment, triggers, exports>>

\* bucket.bucket becomes known
ResolveBucket ==
    /\ ScriptEnded
    /\ outputs["bucket"].st = "pending"
    /\ outputs' = [outputs EXCEPT !["bucket"] = Resolved(BucketValue)]
    /\ UNCHANGED <<composerFrame, lookupCount, units, functionVars>>

\* vpc.vpc.publicSubnetIds becomes known
ResolvePublicSubnetIds ==
    /\ ScriptEnded
    /\ outputs["publicSubnetIds"].st = "pending"
    /\ outputs' = [outputs EXCEPT !["publicSubnetIds"] = Resolved(PublicSubnetIdsValue)]
    /\ UNCHANGED <<composerFrame, lookupCount, units, functionVars>>

\* securityGroup.securityGroup.id becomes known
ResolveSecurityGroupId ==
    /\ ScriptEnded
    /\ outputs["securityGroupId"].st = "pending"
    /\ outputs' = [outputs EXCEPT !["securityGroupId"] = Resolved(SecurityGroupIdValue)]
    /\ UNCHANGED <<composerFrame, lookupCount, units, functionVars>>

\* pulumi.all([publicSubnetIds, securityGroup.id]).apply(...), or Output.create({[], []})
VpcConfigValue ==
    IF lambdaVpcConfig = "derived"
    THEN [subnetIds |-> outputs["publicSubnetIds"].val,
          securityGroupIds |-> <<outputs["securityGroupId"].val>>]
    ELSE NoVpcConfig

ResolveLambdaVpcConfig ==
    /\ ScriptEnded
    /\ outputs["lambdaVpcConfig"].st = "pending"
    /\ lambdaVpcConfig = "derived" =>
           IsResolved("publicSubnetIds") /\ IsResolved("securityGroupId")
    /\ outputs' = [outputs EXCEPT !["lambdaVpcConfig"] = Resolved(VpcConfigValue)]
    /\ UNCHANGED <<composerFrame, lookupCount, units, functionVars>>

\* auroraCluster.endpoint becomes known
ResolveEndpoint ==
    /\ ScriptEnded
    /\ outputs["endpoint"].st = "pending"
    /\ outputs' = [outputs EXCEPT !["endpoint"] = Resolved(EndpointValue)]
    /\ UNCHANGED <<composerFrame, lookupCount, units, functionVars>>

\* auroraCluster.secretArn becomes known
ResolveSecretArn ==
    /\ ScriptEnded
    /\ outputs["secretArn"].st = "pending"
    /\ outputs' = [outputs EXCEPT !["secretArn"] = Resolved(SecretArnValue)]
    /\ UNCHANGED <<composerFrame, lookupCount, units, functionVars>>

\* The lookups counted are capped.
MaxLookups == 3

\* secretArn => aws.secretsmanager.getSecretVersion({secretId: secretArn}): the call
LookupGuardNone == outputs["auroraSecret"].st \in {"pending", "inflight"}
LookupGuard == outputs["auroraSecret"].st = "pending"

StartSecretLookup ==
    /\ ScriptEnded
    /\ LookupGuard
    /\ IsResolved("secretArn")
    /\ lookupCount < MaxLookups
    /\ lookupCount' = lookupCount + 1
    /\ outputs' = [outputs EXCEPT !["auroraSecret"] =
                       [st |-> "inflight", val |-> Blank("auroraSecret")]]
    /\ UNCHANGED <<composerFrame, units, functionVars>>

\* the secret store answers with the secret version, or the call is rejected
SecretLookupReturns ==
    /\ ScriptEnded
    /\ outputs["auroraSecret"].st = "inflight"
    /\ \/ \E s \in SecretStrings :
             outputs' = [outputs EXCEPT !["auroraSecret"] = Resolved(s)]
       \/ outputs' = [outputs EXCEPT !["auroraSecret"] = Failed("auroraSecret")]
    /\ UNCHANGED <<composerFrame, lookupCount, units, functionVars>>

\* secret => { if (!secret.secretString) throw ...; JSON.parse(...); return {...} }
ParseSecret(secretString) ==
    IF secretString = ""
    THEN Failed("credentials")
    ELSE IF JSONParse(secretString).threw
    THEN Failed("credentials")
    ELSE Resolved([username |-> JSONParse(secretString).username,
                   password |-> JSONParse(secretString).password])

ResolveCredentials ==
    /\ ScriptEnded
    /\ outputs["credentials"].st = "pending"
    /\ IsSettled("auroraSecret")
    /\ outputs' = [outputs EXCEPT !["credentials"] =
                       IF IsResolved("auroraSecret")
                       THEN ParseSecret(outputs["auroraSecret"].val)
                       ELSE Failed("credentials")]
    /\ UNCHANGED <<composerFrame, lookupCount, units, functionVars>>

\* vpcConfig => new WebApp(...) / new ConsoleApp(...) / new SqsWorker(...)
BuildUnit(u) ==
    /\ ScriptEnded
    /\ units[u].registered
    /\ ~units[u].built
    /\ IsResolved("lambdaVpcConfig")
    /\ units' = [units EXCEPT ![u] =
                    [registered |-> TRUE, built |-> TRUE,
                     environment |-> UnitEnvironment(u, environment),
                     subnetIds |-> outputs["lambdaVpcConfig"].val.subnetIds,
                     securityGroupIds |-> outputs["lambdaVpcConfig"].val.securityGroupIds]]
    /\ UNCHANGED <<composerFrame, outputs, lookupCount, functionVars>>

BuildWebApp == BuildUnit("web")
BuildConsoleApp == BuildUnit("console")
BuildSqsWorker == BuildUnit("worker")

Next ==
    \/ CreateVpc
    \/ EnterDatabaseBlock
    \/ CreateSecurityGroup
    \/ CreateAuroraCluster
    \/ CreateCredentials
    \/ CreateRole
    \/ BuildEnvironment
    \/ RegisterUnits
    \/ ApiWarmer
    \/ ArtisanScheduler
    \/ Exports
    \/ ResolveBucket
    \/ ResolvePublicSubnetIds
    \/ ResolveSecurityGroupId
    \/ ResolveLambdaVpcConfig
    \/ ResolveEndpoint
    \/ ResolveSecretArn
    \/ StartSecretLookup
    \/ SecretLookupReturns
    \/ ResolveCredentials
    \/ BuildWebApp
    \/ BuildConsoleApp
    \/ BuildSqsWorker

Spec == Init /\ [][Next]_vars

(***************************************************************************)
(* The Function construct                                                  *)
(***************************************************************************)
\* functionDefaults and the constructor's default arguments
DefaultMemorySize == 1024
DefaultTimeout == 28
DefaultArchitecture == "x86_64"
DefaultPhpVersion == <<"8", ".", "2">>

\* A version string is held as the sequence of its characters.
RECURSIVE Join(_)
Join(chars) == IF chars = <<>> THEN "" ELSE Head(chars) \o Join(Tail(chars))

\* String.prototype.replace(ch, ''): the first occurrence of ch is removed.
RECURSIVE ReplaceFirst(_, _)
ReplaceFirst(chars, ch) ==
    IF chars = <<>> THEN <<>>
    ELSE IF Head(chars) = ch THEN Tail(chars)
    ELSE <<Head(chars)>> \o ReplaceFirst(Tail(chars), ch)

phpLayer(phpVersion) ==
    "arn:aws:lambda:us-east-1:534081306603:layer:php-"
        \o Join(ReplaceFirst(phpVersion, ".")) \o ":68"

consoleLayer == "arn:aws:lambda:us-east-1:534081306603:layer:console:78"

fpmLayer(phpVersion) ==
    "arn:aws:lambda:us-east-1:534081306603:layer:php-"
        \o Join(ReplaceFirst(phpVersion, ".")) \o "-fpm:68"

\* this.brefLayers = { php: ..., console: ..., fpm: ... }
brefLayers(phpVersion) ==
    [k \in {"php", "console", "fpm"} |->
        CASE k = "php" -> phpLayer(phpVersion)
          [] k = "console" -> consoleLayer
          [] k = "fpm" -> fpmLayer(phpVersion)]

\* The properties every object literal inherits from Object.prototype.
ObjectPrototypeKeys ==
    {"constructor", "toString", "toLocaleString", "valueOf", "hasOwnProperty",
     "isPrototypeOf", "propertyIsEnumerable", "__proto__", "__defineGetter__",
     "__defineSetter__", "__lookupGetter__", "__lookupSetter__"}

\* `key in obj`: own and inherited properties
HasPropertyOwnOnly(key, obj) == key \in DOMAIN obj
HasProperty(key, obj) == key \in DOMAIN obj \/ key \in ObjectPrototypeKeys

\* obj[key], for a key that `in` finds: the own value, else the inherited member
GetProperty(obj, key) ==
    IF key \in DOMAIN obj THEN obj[key] ELSE "Object.prototype." \o key

\* array.push(x)
PushFront(array, x) == Array(<<x>> \o array.items)
Push(array, x) == Array(Append(array.items, x))

\* for (const layer of brefLayers) { ... }, from the i-th name on
RECURSIVE ResolveLayers(_, _, _, _)
ResolveLayers(names, i, thisLayers, registry) ==
    IF i > Len(names)
    THEN [threw |-> FALSE, offending |-> "", thisLayers |-> thisLayers]
    ELSE LET array == IF ~thisLayers.defined THEN Array(<<>>) ELSE thisLayers
         IN  IF ~HasProperty(names[i], registry)
             THEN [threw |-> TRUE, offending |-> names[i], thisLayers |-> array]
             ELSE ResolveLayers(names, i + 1,
                                Push(array, GetProperty(registry, names[i])), registry)

\* environment: this.environment ? { variables: this.environment } : undefined
LambdaEnvironment(fnEnvironment) ==
    IF fnEnvironment.defined
    THEN [defined |-> TRUE, variables |-> fnEnvironment.vars]
    ELSE [defined |-> FALSE, variables |-> EmptyEnv]

NoLambda == [name |-> "", runtime |-> "", architectures |-> <<>>,
             environment |-> LambdaEnvironment(UndefinedObject), layers |-> <<>>,
             timeout |-> 0, memorySize |-> 0]

\* new aws.lambda.Function(this.name, { ... })
LambdaArgs(name, fnEnvironment, thisLayers, timeout, memorySize) ==
    [name |-> name,
     runtime |-> "provided.al2",
     architectures |-> <<DefaultArchitecture>>,
     environment |-> LambdaEnvironment(fnEnvironment),
     layers |-> IF thisLayers.defined THEN thisLayers.items ELSE <<>>,
     timeout |-> timeout,
     memorySize |-> memorySize]

\* The constructor: what it threw, the array this.layers ends as, the lambda created.
Constructor(name, fnEnvironment, phpVersion, layerNames, layers, timeout, memorySize) ==
    LET loop == ResolveLayers(layerNames, 1, layers, brefLayers(phpVersion))
    IN  [threw |-> loop.threw,
         offending |-> loop.offending,
         thisLayers |-> loop.thisLayers,
         created |-> ~loop.threw,
         lambda |-> IF loop.threw THEN NoLambda
                    ELSE LambdaArgs(name, fnEnvironment, loop.thisLayers, timeout,
                                    memorySize)]

\* this.layers = layers makes this.layers the caller's array itself: what is
\* pushed to one is pushed to the other.  An undefined argument stays undefined.
CallerArrayAfter(layers, thisLayers) == IF layers.defined THEN thisLayers ELSE layers

(***************************************************************************)
(* Building functions from one caller                                      *)
(***************************************************************************)
\* The longest list of layer names a build is asked for.
MaxNames == 2

LayerNames == {"php", "console", "fpm", "toString", "redis"}
NameLists == UNION {[1..n -> LayerNames] : n \in 0..MaxNames}
PhpVersions == {DefaultPhpVersion, <<"8", ".", "3">>}
RawLayerLists == {<<>>, <<"arn:custom:a">>, <<"arn:custom:a", "arn:custom:b">>}
CallerEnvironments == {UndefinedObject, Object([k \in {"APP_ENV"} |-> "production"])}

UnsetConfig == [k \in BooleanFlags \cup {"apiWarmRate", "artisanScheduleRate"} |-> UNDEFINED]

FunctionInit ==
    /\ config = UnsetConfig
    /\ ComposerStart
    /\ callerArgs \in [phpVersion : PhpVersions, environment : CallerEnvironments,
                        layers : {UndefinedArray} \cup {Array(l) : l \in RawLayerLists}]
    /\ callerLayers = callerArgs.layers
    /\ lambdaCount = 0
    /\ lastCall = <<>>

Calls == IF lastCall = <<>> THEN 0 ELSE lastCall[1].n

\* One `new Function(...)` by the caller, with its `layers` array and a list of names.
Build ==
    /\ \E names \in NameLists :
         LET r == Constructor("fn", callerArgs.environment, callerArgs.phpVersion, names,
                              callerLayers, DefaultTimeout, DefaultMemorySize)
         IN  /\ callerLayers' = CallerArrayAfter(callerLayers, r.thisLayers)
             /\ lambdaCount' = IF r.created THEN lambdaCount + 1 ELSE lambdaCount
             /\ lastCall' = <<[n |-> Calls + 1,
                               names |-> names,
                               layersBefore |-> callerLayers,
                               lambdasBefore |-> lambdaCount,
                               threw |-> r.threw,
                               offending |-> r.offending,
                               thisLayers |-> r.thisLayers,
                               lambda |-> r.lambda]>>
    /\ UNCHANGED <<callerArgs, composerVars>>

\* The caller builds a first function, then a second one from the same array.
BuildFirst == Calls = 0 /\ Build
BuildSecond == Calls = 1 /\ Build

FunctionNext == BuildFirst \/ BuildSecond

FunctionSpec == FunctionInit /\ [][FunctionNext]_vars

(***************************************************************************)
(* What an environment entry stands for once the deferred values it names  *)
(* are known.                                                              *)
(***************************************************************************)
\* An entry is resolved when it is a literal, or when the Output it reads is.
EntryResolved(v) ==
    CASE v = EndpointRef -> IsResolved("endpoint")
      [] v = UsernameRef -> IsResolved("credentials")
      [] v = PasswordRef -> IsResolved("credentials")
      [] v = BucketRef -> IsResolved("bucket")
      [] OTHER -> TRUE

EntryValue(v) ==
    CASE v = EndpointRef -> outputs["endpoint"].val
      [] v = UsernameRef -> outputs["credentials"].val.username
      [] v = PasswordRef -> outputs["credentials"].val.password
      [] v = BucketRef -> outputs["bucket"].val
      [] OTHER -> v

\* An environment entry reads the credentials Output.
ReferencesCredentials(env) ==
    \E k \in DOMAIN env : env[k] \in {UsernameRef, PasswordRef}

(***************************************************************************)
(* Properties                                                              *)
(***************************************************************************)
IsTrue(flag) == config[flag] = "true"

\* C1: once the script is past the network step, the VPC exists exactly when
\* useVPC or useMySQL is true, whatever the other flags are.
VpcExistsIffRequested ==
    pc # "vpc" => (vpc # NULL <=> (IsTrue("useVPC") \/ IsTrue("useMySQL")))

\* C1 witness: a finished composition whose VPC was created for useMySQL alone,
\* with the unrelated flags set.
VpcForMySQLOnly ==
    /\ pc = "done"
    /\ vpc = VpcName
    /\ ~IsTrue("useVPC") /\ IsTrue("useMySQL") /\ IsTrue("useOctane")

PastDatabaseBlock == pc \notin {"vpc", "db", "sg", "cluster", "secret"}

\* C2: the security group, the cluster and the credentials are created exactly
\* when useMySQL is true and the VPC exists; none of them ever exists without
\* the VPC, the cluster never without the security group, the credentials never
\* without the cluster.
DatabaseIffMySQLAndVpc ==
    /\ PastDatabaseBlock =>
          /\ securityGroup # NULL <=> (IsTrue("useMySQL") /\ vpc # NULL)
          /\ auroraCluster # NULL <=> (IsTrue("useMySQL") /\ vpc # NULL)
          /\ credentials # NULL <=> (IsTrue("useMySQL") /\ vpc # NULL)
    /\ securityGroup # NULL => vpc # NULL
    /\ auroraCluster # NULL => securityGroup # NULL /\ vpc # NULL
    /\ credentials # NULL => auroraCluster # NULL

\* C2 witness: the script has created the security group and the cluster and is
\* about to create the credentials lookup.
ClusterBeforeCredentials ==
    /\ pc = "secret"
    /\ securityGroup = SecurityGroupName
    /\ auroraCluster = AuroraName
    /\ credentials = NULL

RegistryKeys == {"php", "console", "fpm"}

NamesAllRegistered(names) == \A i \in 1..Len(names) : names[i] \in RegistryKeys

\* C3: a build that was asked for a name outside the registry throws, and a
\* build that throws creates no lambda.
UnknownLayerNameFails ==
    lastCall # <<>> =>
        /\ ~NamesAllRegistered(lastCall[1].names) => lastCall[1].threw
        /\ lastCall[1].threw => lambdaCount = lastCall[1].lambdasBefore

\* The identifiers of the names, in the caller's order.
ResolvedInOrder(names) ==
    [i \in 1..Len(names) |-> brefLayers(callerArgs.phpVersion)[names[i]]]

\* C4: a build from registered names succeeds, and its layers are the caller's
\* raw layers followed by the identifiers of the names in the caller's order.
LayersKeepCallerOrder ==
    (lastCall # <<>> /\ NamesAllRegistered(lastCall[1].names)) =>
        /\ ~lastCall[1].threw
        /\ lastCall[1].lambda.layers =
               lastCall[1].layersBefore.items \o ResolvedInOrder(lastCall[1].names)

\* C4 witness: a build from two registered names given against the registry's
\* key order, after two raw layers.
BuiltFpmThenPhpAfterRawLayers ==
    /\ lastCall # <<>>
    /\ lastCall[1].names = <<"fpm", "php">>
    /\ lastCall[1].layersBefore.items = <<"arn:custom:a", "arn:custom:b">>
    /\ ~lastCall[1].threw

\* What each unit lays over the global environment.
UnitOverrides(u) == IF u = "web" THEN [k \in {"BREF_LOOP_MAX"} |-> "250"] ELSE EmptyEnv

\* The right-biased merge: the override's value where it has one, else the base's.
RightBiasedMerge(base, override) ==
    [k \in DOMAIN base \cup DOMAIN override |->
        IF k \in DOMAIN override THEN override[k] ELSE base[k]]

\* C5: the environment a unit is built with is the right-biased merge of the
\* global environment and the unit's overrides: every key once, an overridden
\* key with the override's value, every other key with the global value.
UnitEnvironmentIsRightBiasedMerge ==
    \A u \in UnitNames :
        units[u].built =>
            /\ units[u].environment = RightBiasedMerge(environment, UnitOverrides(u))
            /\ \A k \in DOMAIN UnitOverrides(u) :
                   units[u].environment[k] = UnitOverrides(u)[k]

\* C5 witness: the web unit is built with its BREF_LOOP_MAX override next to
\* the eight global entries, and the console unit with the global entries alone.
WebBuiltWithOverride ==
    /\ units["web"].built /\ units["console"].built
    /\ DOMAIN units["web"].environment = EnvironmentKeys \cup {"BREF_LOOP_MAX"}
    /\ units["web"].environment["BREF_LOOP_MAX"] = "250"
    /\ units["web"].environment["DB_HOST"] = EndpointRef
    /\ DOMAIN units["console"].environment = EnvironmentKeys

SecretReturnedEmpty ==
    IsTrue("useMySQL") /\ IsResolved("auroraSecret") /\ outputs["auroraSecret"].val = ""

\* C6: once the secret lookup has returned an empty string, the credentials are
\* never populated and no unit is built with an environment that reads them.
EmptySecretStopsComposition ==
    SecretReturnedEmpty =>
        /\ ~IsResolved("credentials")
        /\ \A u \in UnitNames :
               ~(units[u].built /\ ReferencesCredentials(units[u].environment))

DbKeys == {"DB_HOST", "DB_USERNAME", "DB_PASSWORD"}

EnvironmentBuilt == DOMAIN environment = EnvironmentKeys

LookupReturned == IsResolved("auroraSecret")

CredentialsAfterLookup ==
    /\ IsResolved("credentials") => IsResolved("secretArn") /\ LookupReturned
    /\ lookupCount <= 1

SecretEntriesHold ==
    /\ EntryResolved(environment["DB_USERNAME"]) =>
           EntryValue(environment["DB_USERNAME"]) =
               JSONParse(outputs["auroraSecret"].val).username
    /\ EntryResolved(environment["DB_PASSWORD"]) =>
           EntryValue(environment["DB_PASSWORD"]) =
               JSONParse(outputs["auroraSecret"].val).password
    /\ EntryResolved(environment["DB_HOST"]) =>
           EntryValue(environment["DB_HOST"]) = EndpointValue

\* C7 as stated: with useMySQL, the credentials resolve only after the secret
\* reference and the lookup, the lookup runs at most once, and DB_HOST,
\* DB_USERNAME and DB_PASSWORD all stay unresolved until the lookup has
\* returned, holding the endpoint and the secret's fields once resolved.
DbEntriesWaitForLookup ==
    (IsTrue("useMySQL") /\ EnvironmentBuilt) =>
        /\ CredentialsAfterLookup
        /\ \A k \in DbKeys : EntryResolved(environment[k]) => LookupReturned
        /\ SecretEntriesHold

\* C7 amended: as above for DB_USERNAME and DB_PASSWORD; DB_HOST is resolved
\* exactly when the cluster endpoint is, whether or not the lookup has returned.
SecretEntriesWaitForLookup ==
    (IsTrue("useMySQL") /\ EnvironmentBuilt) =>
        /\ CredentialsAfterLookup
        /\ \A k \in {"DB_USERNAME", "DB_PASSWORD"} :
               EntryResolved(environment[k]) => LookupReturned
        /\ EntryResolved(environment["DB_HOST"]) <=> IsResolved("endpoint")
        /\ SecretEntriesHold

\* C7 witness: the credentials have resolved from the secret and the three
\* entries hold the endpoint, the username and the password.
DbEntriesPopulated ==
    /\ IsTrue("useMySQL")
    /\ IsResolved("credentials")
    /\ lookupCount = 1
    /\ EntryValue(environment["DB_HOST"]) = EndpointValue
    /\ EntryValue(environment["DB_USERNAME"]) = "admin"
    /\ EntryValue(environment["DB_PASSWORD"]) = "s3cret"

WebTriggers == {i \in DOMAIN triggers : triggers[i].target = "web"}

ConfiguredApiWarmRate ==
    IF config["apiWarmRate"] = UNDEFINED THEN DefaultApiWarmRate ELSE config["apiWarmRate"]

\* C8: after the keep-warm step, exactly one trigger targets the web function
\* when useApiWarmer is true, at the configured rate or "rate(5 minutes)", and
\* none does otherwise.
OneWebTriggerIffApiWarmer ==
    pc \in {"artisan", "exports", "done", "aborted"} =>
        IF IsTrue("useApiWarmer")
        THEN /\ Cardinality(WebTriggers) = 1
             /\ \A i \in WebTriggers : triggers[i].rate = ConfiguredApiWarmRate
        ELSE WebTriggers = {}

\* C9: a unit built while the VPC exists was built after the VPC's subnet
\* identifiers resolved and holds them; a unit built without a VPC holds empty
\* lists.
UnitsReceiveNetworkIds ==
    \A u \in UnitNames :
        units[u].built =>
            IF vpc # NULL
            THEN /\ IsResolved("publicSubnetIds")
                 /\ units[u].subnetIds = outputs["publicSubnetIds"].val
                 /\ units[u].subnetIds # <<>>
            ELSE units[u].subnetIds = <<>> /\ units[u].securityGroupIds = <<>>

\* C10: a build leaves the caller's `layers` array as the caller supplied it,
\* and every function built from it has that array's entries followed by the
\* function's own resolved layers.
BuildLeavesLayersUnchanged ==
    lastCall # <<>> =>
        /\ callerLayers = callerArgs.layers
        /\ (~lastCall[1].threw /\ NamesAllRegistered(lastCall[1].names)) =>
               lastCall[1].lambda.layers =
                   callerArgs.layers.items \o ResolvedInOrder(lastCall[1].names)

====
